---- MODULE Spec2Model ----
(***************************************************************************)
(* kuksa-databroker: the reconnectable gRPC client (kuksa-grpc Client) and *)
(* the sdv.databroker.v1 Collector service (UpdateDatapoints,              *)
(* StreamDatapoints, RegisterDatapoints) as state machines.                *)
(***************************************************************************)
EXTENDS Integers, Sequences, FiniteSets, TLC

(***************************************************************************)
(* Bounds of the model.                                                    *)
(***************************************************************************)
NumObservers == 2
MaxBatches == 2
MaxUpdateCalls == 2
MaxList == 3
MaxId == 2
BackpressureSlack == 2
NumPeers == 1

(***************************************************************************)
(* Program constants.                                                      *)
(***************************************************************************)
\* mpsc::channel(10): capacity of a session's reply channel
ReplyChannelCapacity == 10
\* tokio::sync::broadcast::channel(1): capacity of the connection-state hub
HubCapacity == 1

VARIABLES
    \* ---- kuksa-grpc Client ----
    uri,            \* Client.uri
    token,          \* Client.token: None, or Some(header value) as its bytes
    channel,        \* Client.channel: None, or Some(channel built for a target)
    hub,            \* Client.connection_state_subs: "None" or "Some"
    obs,            \* the BroadcastStream observers handed out by the hub
    cliOp,          \* the last Client operation, as an OpRecord
    inflight,       \* the connect attempts suspended in builder.connect().await
    lastRpc,        \* the last RPC method called on a client wrapper
    \* ---- Collector service: Store collaborator ----
    storeUpdates,   \* number of Store.update_entries calls made so far
    addLog,         \* the Store.add_entry calls made so far, in order
    \* ---- Collector service: UpdateDatapoints ----
    updReply,       \* the outcome of the last UpdateDatapoints call
    \* ---- Collector service: StreamDatapoints session ----
    sessPc,         \* "idle" | "rejected" | "active" | "sending" | "done"
    sessCall,       \* the StreamDatapoints call: [perm (Permissions present), ret]
    sessAccess,     \* the task's authorized_access handle: [perms, grants, used]
    sessExit,       \* why the ingestion task left its loop
    nRead,          \* inbound batches read by the ingestion task
    lastBatch,      \* the ids of the last inbound batch
    lastStore,      \* the Store's answer to the last batch
    lastPush,       \* the reply handed to error_sender.send for the last batch
    pending,        \* the reply of a suspended error_sender.send
    replyChan,      \* the items buffered in the reply channel
    txClosed,       \* error_sender dropped (the task ended)
    rxState,        \* "none" | "open" | "dropped" | "completed": the reply stream
    nFailed,        \* batches for which the Store reported failures
    nEnqueued,      \* replies accepted by the reply channel
    nDropped,       \* replies whose push failed
    nDelivered,     \* replies read by the consumer of the reply stream
    shutdownSent,   \* the broker's shutdown broadcast has been sent
    shutdownSeen,   \* the session's shutdown_trigger holds an unread signal
    \* ---- Collector service: the StreamDatapoints sessions of other providers ----
    peers,          \* per session: [pc, seen, reads, buffered, rx]
    \* ---- Collector service: RegisterDatapoints ----
    regPc,          \* "idle" | "running" | "done"
    regPerm,        \* the request carried Permissions
    regList,        \* the request's descriptors
    regIdx,         \* descriptors consumed by the for loop
    regResults,     \* the results HashMap
    regStatus,      \* "none" | "Ok" | a Status code
    regMessage      \* the Status message: [text, name]

clientVars == <<uri, token, channel, hub, obs, cliOp, inflight, lastRpc>>
\* What the methods of Client leave alone when they run without suspending
callVars == <<inflight, lastRpc>>
storeVars == <<storeUpdates, addLog>>
updateVars == <<updReply>>
streamVars == <<sessPc, sessCall, sessAccess, sessExit, nRead, lastBatch, lastStore, lastPush, pending,
                replyChan, txClosed, rxState, nFailed, nEnqueued, nDropped, nDelivered,
                shutdownSent, shutdownSeen>>
registerVars == <<regPc, regPerm, regList, regIdx, regResults, regStatus, regMessage>>
peerVars == <<peers>>
vars == <<clientVars, storeVars, updateVars, streamVars, peerVars, registerVars>>

(***************************************************************************)
(* kuksa-grpc Client (src/kuksa-grpc/src/lib.rs)                           *)
(***************************************************************************)
Endpoints == {"ep1", "ep2"}
Observers == 1..NumObservers

\* Bytes of the text "Bearer "
BearerPrefix == <<66, 101, 97, 114, 101, 114, 32>>
\* Candidate token texts: "A", "B" and "A\n"
TokenTexts == {<<65>>, <<66>>, <<65, 10>>}

\* HeaderValue::from_str accepts visible ASCII, space and tab only
IsLegalHeaderValue(s) ==
    \A i \in 1..Len(s) : (s[i] >= 32 /\ s[i] < 127) \/ s[i] = 9

\* Option::None for Client.token and Client.channel; a stored channel is the
\* handle built for a target, whose transport may later fail without the
\* Client being told (alive)
NoToken == [set |-> FALSE, value |-> <<>>]
NoChannel == [present |-> FALSE, target |-> "none", alive |-> FALSE]

\* The record of a Client operation: its name, its token argument, the endpoint
\* handed to Channel::builder, the number of builder.connect() calls it made,
\* whether that build succeeded, its result and what it did (ev)
OpRecord(op, arg, target, tries, built, res, ev) ==
    [op |-> op, arg |-> arg, target |-> target, tries |-> tries, built |-> built,
     res |-> res, ev |-> ev]

\* No RPC method was called yet
NoRpc == [sent |-> FALSE, target |-> "none", headers |-> <<>>, res |-> "none"]

\* Client::new
ClientInit ==
    /\ uri = "ep1"
    /\ token = NoToken
    /\ channel = NoChannel
    /\ hub = "None"
    /\ obs = [o \in Observers |-> [st |-> "unused", pend |-> <<>>, lagged |-> FALSE]]
    /\ cliOp = OpRecord("new", <<>>, "none", 0, FALSE, "Ok", "none")
    /\ inflight = <<>>
    /\ lastRpc = NoRpc

\* Variant of is_connected: probes the transport instead of the handle
is_connected_ChecksLiveness == channel.present /\ channel.alive

\* Client::is_connected
is_connected == channel.present

\* Client::get_uri
get_uri == uri

\* A request's metadata without any header
BlankRequest == [h \in {} |-> <<>>]

\* The closure returned by Client::get_auth_interceptor, applied to a request
\* given as its metadata map
get_auth_interceptor(req) ==
    [ok |-> TRUE,
     req |-> IF token.set
             THEN [h \in DOMAIN req \cup {"authorization"} |->
                        IF h = "authorization" THEN token.value ELSE req[h]]
             ELSE req]

\* broadcast::Sender::receiver_count
ReceiverCount == Cardinality({o \in Observers : obs[o].st = "live"})

\* Variant of Publish: only the first live receiver gets the value
Publish_FirstReceiverOnly(ev) ==
    [o \in Observers |->
        IF obs[o].st = "live" /\ \A p \in Observers : obs[p].st = "live" => o <= p
        THEN [obs[o] EXCEPT !.pend = <<ev>>]
        ELSE obs[o]]

\* Variant of Publish: the value is sent twice
Publish_Twice(ev) ==
    [o \in Observers |->
        IF obs[o].st # "live" THEN obs[o]
        ELSE LET all == obs[o].pend \o <<ev, ev>>
             IN [obs[o] EXCEPT
                    !.pend = SubSeq(all, Len(all) - HubCapacity + 1, Len(all)),
                    !.lagged = TRUE]]

\* broadcast::Sender::send: every live receiver gets the value; a receiver whose
\* buffer is full loses its oldest value and is marked lagged
Publish(ev) ==
    [o \in Observers |->
        IF obs[o].st # "live" THEN obs[o]
        ELSE IF Len(obs[o].pend) >= HubCapacity
             THEN [obs[o] EXCEPT !.pend = Tail(@) \o <<ev>>, !.lagged = TRUE]
             ELSE [obs[o] EXCEPT !.pend = @ \o <<ev>>]]

\* Variant of try_create_channel: Connected is published before the build is
\* awaited
try_create_channel_PublishesFirst(op, target, buildOk) ==
    IF buildOk
    THEN IF hub = "Some" /\ ReceiverCount = 0
         THEN /\ cliOp' = OpRecord(op, <<>>, target, 1, TRUE, "ConnectionError", "notify")
              /\ UNCHANGED <<channel, obs>>
         ELSE /\ obs' = IF hub = "Some" THEN Publish("Connected") ELSE obs
              /\ channel' = [present |-> TRUE, target |-> target, alive |-> TRUE]
              /\ cliOp' = OpRecord(op, <<>>, target, 1, TRUE, "Ok", "stored")
    ELSE /\ obs' = IF hub = "Some" THEN Publish("Connected") ELSE obs
         /\ cliOp' = OpRecord(op, <<>>, target, 1, FALSE, "ConnectionError", "connect")
         /\ UNCHANGED channel

\* Variant of try_create_channel: a failed build also forgets the stored channel
try_create_channel_ClearsOnFailure(op, target, buildOk) ==
    IF buildOk
    THEN IF hub = "Some" /\ ReceiverCount = 0
         THEN /\ cliOp' = OpRecord(op, <<>>, target, 1, TRUE, "ConnectionError", "notify")
              /\ UNCHANGED <<channel, obs>>
         ELSE /\ obs' = IF hub = "Some" THEN Publish("Connected") ELSE obs
              /\ channel' = [present |-> TRUE, target |-> target, alive |-> TRUE]
              /\ cliOp' = OpRecord(op, <<>>, target, 1, TRUE, "Ok", "stored")
    ELSE /\ obs' = IF hub = "Some" THEN Publish("Disconnected") ELSE obs
         /\ cliOp' = OpRecord(op, <<>>, target, 1, FALSE, "ConnectionError", "connect")
         /\ channel' = NoChannel

\* Client::try_create_channel, with the outcome of builder.connect() as input
try_create_channel(op, target, buildOk) ==
    IF buildOk
    THEN IF hub = "Some" /\ ReceiverCount = 0
         THEN \* subs.send(Connected) fails and `?` returns before the channel is stored
              /\ cliOp' = OpRecord(op, <<>>, target, 1, TRUE, "ConnectionError", "notify")
              /\ UNCHANGED <<channel, obs>>
         ELSE /\ obs' = IF hub = "Some" THEN Publish("Connected") ELSE obs
              /\ channel' = [present |-> TRUE, target |-> target, alive |-> TRUE]
              /\ cliOp' = OpRecord(op, <<>>, target, 1, TRUE, "Ok", "stored")
    ELSE \* subs.send(Disconnected).unwrap_or_default(): a failed send is ignored
         /\ obs' = IF hub = "Some" THEN Publish("Disconnected") ELSE obs
         /\ cliOp' = OpRecord(op, <<>>, target, 1, FALSE, "ConnectionError", "connect")
         /\ UNCHANGED channel

\* Client::try_connect
try_connect ==
    \E buildOk \in BOOLEAN :
        /\ try_create_channel("try_connect", uri, buildOk)
        /\ UNCHANGED <<uri, token, hub>>

\* Variant of try_connect_to: the channel is built before the endpoint is replaced
try_connect_to_BuildsForOldUri ==
    \E u \in Endpoints, buildOk \in BOOLEAN :
        /\ uri' = u
        /\ try_create_channel("try_connect_to", uri, buildOk)
        /\ UNCHANGED <<token, hub>>

\* Variant of try_connect_to: the endpoint is replaced only when the connect succeeds
try_connect_to_KeepsUriOnFailure ==
    \E u \in Endpoints, buildOk \in BOOLEAN :
        /\ try_create_channel("try_connect_to", u, buildOk)
        /\ uri' = IF cliOp'.res = "Ok" THEN u ELSE uri
        /\ UNCHANGED <<token, hub>>

\* Client::try_connect_to
try_connect_to ==
    \E u \in Endpoints, buildOk \in BOOLEAN :
        /\ uri' = u
        /\ try_create_channel("try_connect_to", u, buildOk)
        /\ UNCHANGED <<token, hub>>

\* Variant of get_channel: connects again even when a channel is stored
get_channel_AlwaysConnects ==
    /\ \E buildOk \in BOOLEAN : try_create_channel("get_channel", uri, buildOk)
    /\ UNCHANGED <<uri, token, hub>>

\* Client::get_channel, called by op
GetChannel(op) ==
    /\ IF ~channel.present
       THEN \E buildOk \in BOOLEAN : try_create_channel(op, uri, buildOk)
       ELSE /\ cliOp' = OpRecord(op, <<>>, "none", 0, FALSE, "Ok", "existing")
            /\ UNCHANGED <<channel, obs>>
    /\ UNCHANGED <<uri, token, hub>>

\* Client::get_channel
get_channel == GetChannel("get_channel")

\* The outcome of an RPC method of a client wrapper, given what get_channel
\* returned: `?` returns the Connection error before anything is sent; otherwise
\* the request goes out on the channel with the interceptor's headers and the
\* method returns the response or Error::Status
RpcOutcome(got, chan, headers, status) ==
    IF got = "Ok"
    THEN [sent |-> TRUE, target |-> chan.target, headers |-> headers, res |-> status]
    ELSE [sent |-> FALSE, target |-> "none", headers |-> <<>>, res |-> "ConnectionError"]

\* Variant of rpc_call: the method connects with try_connect before every request
rpc_call_ConnectsFirst ==
    /\ \E buildOk \in BOOLEAN : try_create_channel("rpc", uri, buildOk)
    /\ UNCHANGED <<uri, token, hub>>
    /\ \E status \in {"Ok", "Status"} :
        lastRpc' = RpcOutcome(cliOp'.res, channel', get_auth_interceptor(BlankRequest).req, status)

\* An RPC method of a client wrapper (kuksa Client::set, databroker-grpc
\* Client::update_datapoints, ...): get_channel().await?.clone(), the auth
\* interceptor, then the request
rpc_call ==
    /\ GetChannel("rpc")
    /\ \E status \in {"Ok", "Status"} :
        lastRpc' = RpcOutcome(cliOp'.res, channel', get_auth_interceptor(BlankRequest).req, status)

\* Variant of ConnectSuspend: a connect attempt starts while another one is
\* suspended
ConnectSuspend_Unborrowed ==
    /\ Len(inflight) < 2
    /\ \E op \in {"try_connect", "try_connect_to", "get_channel"}, u \in Endpoints :
        /\ op = "get_channel" => ~channel.present
        /\ uri' = IF op = "try_connect_to" THEN u ELSE uri
        /\ inflight' = Append(inflight, [op |-> op, target |-> uri'])
        /\ cliOp' = OpRecord(op, <<>>, uri', 1, FALSE, "Pending", "await")
    /\ UNCHANGED <<token, channel, hub, obs>>

\* try_connect, try_connect_to or get_channel (without a channel) up to the
\* suspension of try_create_channel in builder.connect().await. The call holds
\* the Client by &mut self, so it starts only when no other call holds it.
ConnectSuspend ==
    /\ inflight = <<>>
    /\ \E op \in {"try_connect", "try_connect_to", "get_channel"}, u \in Endpoints :
        /\ op = "get_channel" => ~channel.present
        /\ uri' = IF op = "try_connect_to" THEN u ELSE uri
        /\ inflight' = Append(inflight, [op |-> op, target |-> uri'])
        /\ cliOp' = OpRecord(op, <<>>, uri', 1, FALSE, "Pending", "await")
    /\ UNCHANGED <<token, channel, hub, obs>>

\* builder.connect() completes and the suspended call runs to its end
ConnectComplete ==
    /\ inflight # <<>>
    /\ \E buildOk \in BOOLEAN :
        try_create_channel(Head(inflight).op, Head(inflight).target, buildOk)
    /\ inflight' = Tail(inflight)
    /\ UNCHANGED <<uri, token, hub>>

\* Variant of set_access_token: a rejected text clears the stored token
set_access_token_ClearsOnError ==
    \E t \in TokenTexts :
        /\ IF IsLegalHeaderValue(BearerPrefix \o t)
           THEN /\ token' = [set |-> TRUE, value |-> BearerPrefix \o t]
                /\ cliOp' = OpRecord("set_access_token", t, "none", 0, FALSE, "Ok", "none")
           ELSE /\ cliOp' = OpRecord("set_access_token", t, "none", 0, FALSE, "MalformedTokenError", "none")
                /\ token' = NoToken
        /\ UNCHANGED <<uri, channel, hub, obs>>

\* Variant of set_access_token: the text is stored without the "Bearer " prefix
set_access_token_NoPrefix ==
    \E t \in TokenTexts :
        /\ IF IsLegalHeaderValue(BearerPrefix \o t)
           THEN /\ token' = [set |-> TRUE, value |-> t]
                /\ cliOp' = OpRecord("set_access_token", t, "none", 0, FALSE, "Ok", "none")
           ELSE /\ cliOp' = OpRecord("set_access_token", t, "none", 0, FALSE, "MalformedTokenError", "none")
                /\ UNCHANGED token
        /\ UNCHANGED <<uri, channel, hub, obs>>

\* Client::set_access_token
set_access_token ==
    \E t \in TokenTexts :
        /\ IF IsLegalHeaderValue(BearerPrefix \o t)
           THEN /\ token' = [set |-> TRUE, value |-> BearerPrefix \o t]
                /\ cliOp' = OpRecord("set_access_token", t, "none", 0, FALSE, "Ok", "none")
           ELSE /\ cliOp' = OpRecord("set_access_token", t, "none", 0, FALSE, "MalformedTokenError", "none")
                /\ UNCHANGED token
        /\ UNCHANGED <<uri, channel, hub, obs>>

\* Variant of subscribe_to_connection_state: a new observer is first told the
\* current state
subscribe_to_connection_state_Replays ==
    \E o \in Observers :
        /\ obs[o].st = "unused"
        /\ hub' = "Some"
        /\ obs' = [obs EXCEPT ![o] = [st |-> "live",
                                      pend |-> IF channel.present THEN <<"Connected">> ELSE <<>>,
                                      lagged |-> FALSE]]
        /\ cliOp' = OpRecord("subscribe", <<>>, "none", 0, FALSE, "Ok", "none")
        /\ UNCHANGED <<uri, token, channel>>

\* Client::subscribe_to_connection_state
subscribe_to_connection_state ==
    \E o \in Observers :
        /\ obs[o].st = "unused"
        /\ hub' = "Some"
        /\ obs' = [obs EXCEPT ![o] = [st |-> "live", pend |-> <<>>, lagged |-> FALSE]]
        /\ cliOp' = OpRecord("subscribe", <<>>, "none", 0, FALSE, "Ok", "none")
        /\ UNCHANGED <<uri, token, channel>>

\* An observer polls its BroadcastStream: a lagged receiver first yields Lagged
ObserverRecv ==
    \E o \in Observers :
        /\ obs[o].st = "live"
        /\ obs[o].pend # <<>>
        /\ IF obs[o].lagged
           THEN /\ obs' = [obs EXCEPT ![o].lagged = FALSE]
                /\ cliOp' = OpRecord("observe", <<>>, "none", 0, FALSE, "Lagged", "none")
           ELSE /\ obs' = [obs EXCEPT ![o].pend = Tail(@)]
                /\ cliOp' = OpRecord("observe", <<>>, "none", 0, FALSE, "Ok", Head(obs[o].pend))
        /\ UNCHANGED <<uri, token, channel, hub>>

\* An observer drops its BroadcastStream
ObserverDrop ==
    \E o \in Observers :
        /\ obs[o].st = "live"
        /\ obs' = [obs EXCEPT ![o] = [st |-> "dropped", pend |-> <<>>, lagged |-> FALSE]]
        /\ cliOp' = OpRecord("drop", <<>>, "none", 0, FALSE, "Ok", "none")
        /\ UNCHANGED <<uri, token, channel, hub>>

\* The transport behind the stored channel fails; the Client is not told
TransportFails ==
    /\ channel.present
    /\ channel.alive
    /\ channel' = [channel EXCEPT !.alive = FALSE]
    /\ cliOp' = OpRecord("transport", <<>>, "none", 0, FALSE, "Ok", "none")
    /\ UNCHANGED <<uri, token, hub, obs>>

(***************************************************************************)
(* Store collaborator (broker.rs, consumed through update_entries and      *)
(* add_entry only) and the wire conversions of the Collector service.      *)
(***************************************************************************)
ItemIds == {1, 2}
EntryIds == 1..MaxId
Names == {"A", "B"}

\* The Store's per-item failure kinds
FailureKinds == {"InvalidType", "OutOfBounds", "UnknownDatapoint", "AccessDenied", "InternalError"}

\* proto::DatapointError::from(error) as i32: the value of the wire enum
DatapointErrorCode(kind) ==
    CASE kind = "UnknownDatapoint" -> 0
      [] kind = "InvalidType" -> 1
      [] kind = "AccessDenied" -> 2
      [] kind = "InternalError" -> 3
      [] kind = "OutOfBounds" -> 4

\* Store.update_entries(batch): Ok(()) is the empty map, Err(map) names the
\* failing ids of the batch
UpdateEntriesOutcomes(batch, kinds) ==
    UNION {[F -> kinds] : F \in SUBSET batch}

UpdateOk(outcome) == DOMAIN outcome = {}

\* Store.add_entry(name, ...): Ok(id) or a RegistrationError
AddEntryOutcomes ==
    [ok : {TRUE}, id : EntryIds, err : {"none"}]
    \cup [ok : {FALSE}, id : {0}, err : {"PermissionDenied", "PermissionExpired", "ValidationError"}]

\* The codes a descriptor can carry in data_type and change_type
DataTypeCodes == {"FLOAT", "undefined"}
ChangeTypeCodes == {"ON_CHANGE", "undefined"}

\* proto::DataType::try_from(i32)
DataTypeDecodes(code) == code = "FLOAT"

\* proto::ChangeType::try_from(i32)
ChangeTypeDecodes(code) == code = "ON_CHANGE"

Descriptors == [name : Names, data_type : DataTypeCodes, change_type : ChangeTypeCodes]

DescriptorLists(maxLen) == UNION {[1..n -> Descriptors] : n \in 0..maxLen}

StoreInit ==
    /\ storeUpdates = 0
    /\ addLog = <<>>

(***************************************************************************)
(* Collector::update_datapoints (collector.rs 31-83)                       *)
(***************************************************************************)
NoReply == [status |-> "none", perm |-> FALSE, batch |-> {}, errors |-> <<>>, store |-> <<>>]

UpdateInit == updReply = NoReply

\* The errors map of a reply: every id the Store reported, with its wire code
ErrorsOf(outcome) == [id \in DOMAIN outcome |-> DatapointErrorCode(outcome[id])]

\* Variant of update_datapoints: item failures fail the call
update_datapoints_FailsOnItemError(ids, kinds) ==
    \E hasPerm \in BOOLEAN, batch \in SUBSET ids :
        IF ~hasPerm
        THEN /\ updReply' = [status |-> "Unauthenticated", perm |-> FALSE, batch |-> batch,
                             errors |-> <<>>, store |-> <<>>]
             /\ UNCHANGED storeVars
        ELSE \E outcome \in UpdateEntriesOutcomes(batch, kinds) :
                /\ storeUpdates < MaxUpdateCalls
                /\ storeUpdates' = storeUpdates + 1
                /\ updReply' = [status |-> IF UpdateOk(outcome) THEN "Ok" ELSE "Internal",
                                perm |-> TRUE, batch |-> batch,
                                errors |-> <<>>,
                                store |-> outcome]
                /\ UNCHANGED addLog

\* Collector::update_datapoints
update_datapoints(ids, kinds) ==
    \E hasPerm \in BOOLEAN, batch \in SUBSET ids :
        IF ~hasPerm
        THEN /\ updReply' = [status |-> "Unauthenticated", perm |-> FALSE, batch |-> batch,
                             errors |-> <<>>, store |-> <<>>]
             /\ UNCHANGED storeVars
        ELSE \E outcome \in UpdateEntriesOutcomes(batch, kinds) :
                /\ storeUpdates < MaxUpdateCalls
                /\ storeUpdates' = storeUpdates + 1
                /\ updReply' = [status |-> "Ok", perm |-> TRUE, batch |-> batch,
                                errors |-> IF UpdateOk(outcome) THEN <<>> ELSE ErrorsOf(outcome),
                                store |-> outcome]
                /\ UNCHANGED addLog

(***************************************************************************)
(* Collector::stream_datapoints (collector.rs 87-182)                      *)
(***************************************************************************)
\* The Permissions a request can carry in its extensions
Permissions == {"P1", "P2"}

\* No authorized_access handle: the task was not spawned
NoAccess == [perms |-> "none", grants |-> 0, used |-> "none"]

\* broker.authorized_access(&permissions): the handle through which the task
\* calls the Store, with the number of handles made for the session so far
authorized_access(permissions) ==
    [perms |-> permissions, grants |-> sessAccess.grants + 1, used |-> "none"]

\* No reply: nothing was handed to error_sender.send
NoPush == [kind |-> "none", errors |-> <<>>]

StreamInit ==
    /\ sessPc = "idle"
    /\ sessCall = [perm |-> FALSE, ret |-> "none"]
    /\ sessAccess = NoAccess
    /\ sessExit = "none"
    /\ nRead = 0
    /\ lastBatch = {}
    /\ lastStore = <<>>
    /\ lastPush = NoPush
    /\ pending = NoPush
    /\ replyChan = <<>>
    /\ txClosed = FALSE
    /\ rxState = "none"
    /\ nFailed = 0
    /\ nEnqueued = 0
    /\ nDropped = 0
    /\ nDelivered = 0
    /\ shutdownSent = FALSE
    /\ shutdownSeen = FALSE

\* Variant of ReplyOf: only one of the failing ids is reported
ReplyOf_FirstErrorOnly(outcome) ==
    LET first == CHOOSE id \in DOMAIN outcome : \A other \in DOMAIN outcome : id <= other
    IN [kind |-> "Ok", errors |-> [id \in {first} |-> DatapointErrorCode(outcome[id])]]

\* Ok(proto::StreamDatapointsReply { errors })
ReplyOf(outcome) == [kind |-> "Ok", errors |-> ErrorsOf(outcome)]

\* Variant of stream_datapoints: the missing Permissions are not checked before
\* the task is spawned
stream_datapoints_NoAuthCheck ==
    /\ sessPc = "idle"
    /\ \E hasPerm \in BOOLEAN :
        /\ sessPc' = "active"
        /\ sessCall' = [perm |-> hasPerm, ret |-> "OkStream"]
        /\ \E permissions \in Permissions :
                sessAccess' = authorized_access(IF hasPerm THEN permissions ELSE "none")
        /\ rxState' = "open"
    /\ UNCHANGED <<sessExit, nRead, lastBatch, lastStore, lastPush, pending, replyChan, txClosed,
                   nFailed, nEnqueued, nDropped, nDelivered, shutdownSent, shutdownSeen>>
    /\ UNCHANGED storeVars

\* Variant of stream_datapoints: the call runs the ingestion loop itself and
\* returns the reply stream when the inbound stream has ended
stream_datapoints_Blocking ==
    /\ sessPc = "idle"
    /\ \E hasPerm \in BOOLEAN :
        IF ~hasPerm
        THEN /\ sessPc' = "rejected"
             /\ sessCall' = [perm |-> FALSE, ret |-> "Unauthenticated"]
             /\ UNCHANGED <<rxState, sessExit, txClosed, sessAccess>>
        ELSE /\ sessPc' = "done"
             /\ sessCall' = [perm |-> TRUE, ret |-> "OkStream"]
             /\ \E permissions \in Permissions : sessAccess' = authorized_access(permissions)
             /\ rxState' = "open"
             /\ sessExit' = "eos"
             /\ txClosed' = TRUE
    /\ UNCHANGED <<nRead, lastBatch, lastStore, lastPush, pending, replyChan,
                   nFailed, nEnqueued, nDropped, nDelivered, shutdownSent, shutdownSeen>>
    /\ UNCHANGED storeVars

\* The call itself: authorize, subscribe to the shutdown trigger, create the
\* reply channel, spawn the task, return the reply stream
stream_datapoints ==
    /\ sessPc = "idle"
    /\ \E hasPerm \in BOOLEAN :
        IF ~hasPerm
        THEN /\ sessPc' = "rejected"
             /\ sessCall' = [perm |-> FALSE, ret |-> "Unauthenticated"]
             /\ UNCHANGED <<rxState, sessAccess>>
        ELSE /\ sessPc' = "active"
             /\ sessCall' = [perm |-> TRUE, ret |-> "OkStream"]
             /\ \E permissions \in Permissions : sessAccess' = authorized_access(permissions)
             /\ rxState' = "open"
    /\ UNCHANGED <<sessExit, nRead, lastBatch, lastStore, lastPush, pending, replyChan, txClosed,
                   nFailed, nEnqueued, nDropped, nDelivered, shutdownSent, shutdownSeen>>
    /\ UNCHANGED storeVars

\* Variant of SendReply: the loop is left once a failure report has been pushed
SendReply_EndsSession(reply) ==
    /\ sessPc' = "done"
    /\ pending' = NoPush
    /\ IF rxState = "open" /\ Len(replyChan) < ReplyChannelCapacity
       THEN /\ replyChan' = Append(replyChan, reply)
            /\ nEnqueued' = nEnqueued + 1
            /\ UNCHANGED nDropped
       ELSE /\ nDropped' = nDropped + 1
            /\ UNCHANGED <<replyChan, nEnqueued>>

\* Variant of SendReply: a try_send, which gives up on a full channel
SendReply_DropsWhenFull(reply) ==
    IF rxState = "open" /\ Len(replyChan) < ReplyChannelCapacity
    THEN /\ replyChan' = Append(replyChan, reply)
         /\ nEnqueued' = nEnqueued + 1
         /\ sessPc' = "active"
         /\ pending' = NoPush
         /\ UNCHANGED nDropped
    ELSE /\ nDropped' = nDropped + 1
         /\ sessPc' = "active"
         /\ pending' = NoPush
         /\ UNCHANGED <<replyChan, nEnqueued>>

\* Variant of SendReply: a push that fails ends the loop
SendReply_BreaksOnError(reply) ==
    IF rxState # "open"
    THEN /\ nDropped' = nDropped + 1
         /\ sessPc' = "done"
         /\ pending' = NoPush
         /\ UNCHANGED <<replyChan, nEnqueued>>
    ELSE IF Len(replyChan) < ReplyChannelCapacity
    THEN /\ replyChan' = Append(replyChan, reply)
         /\ nEnqueued' = nEnqueued + 1
         /\ sessPc' = "active"
         /\ pending' = NoPush
         /\ UNCHANGED nDropped
    ELSE /\ pending' = reply
         /\ sessPc' = "sending"
         /\ UNCHANGED <<replyChan, nEnqueued, nDropped>>

\* Variant of SendReply: the reply is put in front of the buffered ones
SendReply_Prepends(reply) ==
    IF rxState # "open"
    THEN /\ nDropped' = nDropped + 1
         /\ sessPc' = "active"
         /\ pending' = NoPush
         /\ UNCHANGED <<replyChan, nEnqueued>>
    ELSE IF Len(replyChan) < ReplyChannelCapacity
    THEN /\ replyChan' = <<reply>> \o replyChan
         /\ nEnqueued' = nEnqueued + 1
         /\ sessPc' = "active"
         /\ pending' = NoPush
         /\ UNCHANGED nDropped
    ELSE /\ pending' = reply
         /\ sessPc' = "sending"
         /\ UNCHANGED <<replyChan, nEnqueued, nDropped>>

\* error_sender.send(reply).await as far as it gets without suspending
SendReply(reply) ==
    IF rxState # "open"
    THEN \* the receiver is gone: send returns Err, which is only logged
         /\ nDropped' = nDropped + 1
         /\ sessPc' = "active"
         /\ pending' = NoPush
         /\ UNCHANGED <<replyChan, nEnqueued>>
    ELSE IF Len(replyChan) < ReplyChannelCapacity
    THEN /\ replyChan' = Append(replyChan, reply)
         /\ nEnqueued' = nEnqueued + 1
         /\ sessPc' = "active"
         /\ pending' = NoPush
         /\ UNCHANGED nDropped
    ELSE \* the channel is full: the task is suspended in send
         /\ pending' = reply
         /\ sessPc' = "sending"
         /\ UNCHANGED <<replyChan, nEnqueued, nDropped>>

\* Variant of StreamMessage: the Store handle is made anew for every batch, from
\* the Permissions the batch carries
StreamMessage_Reauthorizes(maxBatches, ids, kinds) ==
    /\ sessPc = "active"
    /\ nRead < maxBatches
    /\ \E batch \in SUBSET ids :
       \E outcome \in UpdateEntriesOutcomes(batch, kinds) :
        /\ nRead' = nRead + 1
        /\ lastBatch' = batch
        /\ storeUpdates' = storeUpdates + 1
        /\ lastStore' = outcome
        /\ \E permissions \in Permissions :
            sessAccess' = [authorized_access(permissions) EXCEPT !.used = permissions]
        /\ IF UpdateOk(outcome)
           THEN /\ lastPush' = NoPush
                /\ UNCHANGED <<sessPc, pending, replyChan, nFailed, nEnqueued, nDropped>>
           ELSE /\ lastPush' = ReplyOf(outcome)
                /\ nFailed' = nFailed + 1
                /\ SendReply(ReplyOf(outcome))
    /\ UNCHANGED <<sessCall, sessExit, txClosed, rxState, nDelivered, shutdownSent,
                   shutdownSeen, addLog>>

\* select! takes the stream.message() branch with Ok(Some(req))
StreamMessage(maxBatches, ids, kinds) ==
    /\ sessPc = "active"
    /\ nRead < maxBatches
    /\ \E batch \in SUBSET ids :
       \E outcome \in UpdateEntriesOutcomes(batch, kinds) :
        /\ nRead' = nRead + 1
        /\ lastBatch' = batch
        /\ storeUpdates' = storeUpdates + 1
        /\ lastStore' = outcome
        /\ sessAccess' = [sessAccess EXCEPT !.used = sessAccess.perms]
        /\ IF UpdateOk(outcome)
           THEN /\ lastPush' = NoPush
                /\ UNCHANGED <<sessPc, pending, replyChan, nFailed, nEnqueued, nDropped>>
           ELSE /\ lastPush' = ReplyOf(outcome)
                /\ nFailed' = nFailed + 1
                /\ SendReply(ReplyOf(outcome))
    /\ UNCHANGED <<sessCall, sessExit, txClosed, rxState, nDelivered, shutdownSent,
                   shutdownSeen, addLog>>

\* The suspended error_sender.send completes: room was made, or the receiver went away
SendResume ==
    /\ sessPc = "sending"
    /\ rxState # "open" \/ Len(replyChan) < ReplyChannelCapacity
    /\ SendReply(pending)
    /\ UNCHANGED <<sessCall, sessAccess, sessExit, nRead, lastBatch, lastStore, lastPush, txClosed, rxState,
                   nFailed, nDelivered, shutdownSent, shutdownSeen>>
    /\ UNCHANGED storeVars

\* The task leaves the loop and ends; error_sender is dropped with it
ExitLoop(reason) ==
    /\ sessPc' = "done"
    /\ sessExit' = reason
    /\ txClosed' = TRUE
    /\ UNCHANGED <<sessCall, sessAccess, nRead, lastBatch, lastStore, lastPush, pending, replyChan, rxState,
                   nFailed, nEnqueued, nDropped, nDelivered, shutdownSent, shutdownSeen>>
    /\ UNCHANGED storeVars

\* Variant of StreamEnd: the end of the inbound stream is logged and the loop
\* goes on
StreamEnd_NoBreak ==
    /\ sessPc = "active"
    /\ sessExit' = "eos"
    /\ UNCHANGED <<sessPc, sessCall, sessAccess, nRead, lastBatch, lastStore, lastPush, pending, replyChan, rxState,
                   txClosed, nFailed, nEnqueued, nDropped, nDelivered, shutdownSent,
                   shutdownSeen>>
    /\ UNCHANGED storeVars

\* select! takes the stream.message() branch with Ok(None)
StreamEnd ==
    /\ sessPc = "active"
    /\ ExitLoop("eos")

\* select! takes the stream.message() branch with Err(status)
StreamError ==
    /\ sessPc = "active"
    /\ ExitLoop("error")

\* Variant of ShutdownObserved: the shutdown branch logs the signal and goes
\* round the loop again instead of breaking
ShutdownObserved_NoBreak ==
    /\ sessPc = "active"
    /\ shutdownSeen
    /\ sessExit' = "shutdown"
    /\ UNCHANGED <<sessPc, sessCall, sessAccess, nRead, lastBatch, lastStore, lastPush, pending, replyChan, rxState,
                   txClosed, nFailed, nEnqueued, nDropped, nDelivered, shutdownSent,
                   shutdownSeen>>
    /\ UNCHANGED storeVars

\* Variant of ShutdownObserved: the shutdown signal is also raced against the
\* suspended error_sender.send
ShutdownObserved_WhileSending ==
    /\ sessPc \in {"active", "sending"}
    /\ shutdownSeen
    /\ ExitLoop("shutdown")

\* select! takes the shutdown_trigger.recv() branch
ShutdownObserved ==
    /\ sessPc = "active"
    /\ shutdownSeen
    /\ ExitLoop("shutdown")

\* DataBroker::shutdown: one broadcast on the shutdown trigger, seen by the
\* receivers that exist at that moment
Shutdown ==
    /\ ~shutdownSent
    /\ shutdownSent' = TRUE
    /\ shutdownSeen' = (sessPc \in {"active", "sending"})
    /\ peers' = [p \in DOMAIN peers |->
                    IF peers[p].pc \in {"active", "sending"}
                    THEN [peers[p] EXCEPT !.seen = TRUE]
                    ELSE peers[p]]
    /\ UNCHANGED <<sessPc, sessCall, sessAccess, sessExit, nRead, lastBatch, lastStore, lastPush, pending,
                   replyChan, txClosed, rxState, nFailed, nEnqueued, nDropped, nDelivered>>
    /\ UNCHANGED storeVars

\* The consumer of the returned ReceiverStream takes the next item
ConsumerRecv ==
    /\ rxState = "open"
    /\ replyChan # <<>>
    /\ replyChan' = Tail(replyChan)
    /\ nDelivered' = nDelivered + 1
    /\ UNCHANGED <<sessPc, sessCall, sessAccess, sessExit, nRead, lastBatch, lastStore, lastPush, pending,
                   txClosed, rxState, nFailed, nEnqueued, nDropped, shutdownSent, shutdownSeen>>
    /\ UNCHANGED storeVars

\* The consumer sees the end of the ReceiverStream: empty and the sender dropped
ConsumerEnd ==
    /\ rxState = "open"
    /\ replyChan = <<>>
    /\ txClosed
    /\ rxState' = "completed"
    /\ UNCHANGED <<sessPc, sessCall, sessAccess, sessExit, nRead, lastBatch, lastStore, lastPush, pending,
                   replyChan, txClosed, nFailed, nEnqueued, nDropped, nDelivered,
                   shutdownSent, shutdownSeen>>
    /\ UNCHANGED storeVars

\* The consumer drops the ReceiverStream; what was buffered is discarded
ConsumerDrop ==
    /\ rxState = "open"
    /\ rxState' = "dropped"
    /\ replyChan' = <<>>
    /\ UNCHANGED <<sessPc, sessCall, sessAccess, sessExit, nRead, lastBatch, lastStore, lastPush, pending,
                   txClosed, nFailed, nEnqueued, nDropped, nDelivered,
                   shutdownSent, shutdownSeen>>
    /\ UNCHANGED storeVars

(***************************************************************************)
(* The sessions of other providers that run beside the one above: the same *)
(* stream_datapoints call and ingestion task (collector.rs 87-182), kept   *)
(* as the position of the task, its shutdown_trigger, the number of        *)
(* batches it read and the number of replies buffered in its reply channel *)
(***************************************************************************)
Peers == 1..NumPeers

IdlePeer == [pc |-> "idle", seen |-> FALSE, reads |-> 0, buffered |-> 0, rx |-> "none"]

PeerInit == peers = [p \in Peers |-> IdlePeer]

\* stream_datapoints called by another provider, with Permissions
PeerStreamDatapoints(p) ==
    /\ peers[p].pc = "idle"
    /\ peers' = [peers EXCEPT ![p].pc = "active", ![p].rx = "open"]
    /\ UNCHANGED storeVars

\* error_sender.send(reply).await of a peer's task, as far as it gets without
\* suspending: lost when the receiver is gone, buffered when there is room,
\* suspended when the channel is full
PeerSendReply(p) ==
    IF peers[p].rx # "open"
    THEN [peers[p] EXCEPT !.pc = "active"]
    ELSE IF peers[p].buffered < ReplyChannelCapacity
    THEN [peers[p] EXCEPT !.pc = "active", !.buffered = @ + 1]
    ELSE [peers[p] EXCEPT !.pc = "sending"]

\* A peer's select! takes the stream.message() branch with Ok(Some(req))
PeerStreamMessage(p, maxBatches) ==
    /\ peers[p].pc = "active"
    /\ peers[p].reads < maxBatches
    /\ storeUpdates' = storeUpdates + 1
    /\ \E failed \in BOOLEAN :
        peers' = [peers EXCEPT ![p] =
                    IF failed
                    THEN [PeerSendReply(p) EXCEPT !.reads = @ + 1]
                    ELSE [peers[p] EXCEPT !.reads = @ + 1]]
    /\ UNCHANGED addLog

\* A peer's suspended error_sender.send completes
PeerSendResume(p) ==
    /\ peers[p].pc = "sending"
    /\ peers[p].rx # "open" \/ peers[p].buffered < ReplyChannelCapacity
    /\ peers' = [peers EXCEPT ![p] = PeerSendReply(p)]
    /\ UNCHANGED storeVars

\* A peer's select! takes the stream.message() branch with Ok(None) or Err(status)
PeerStreamEnd(p) ==
    /\ peers[p].pc = "active"
    /\ peers' = [peers EXCEPT ![p].pc = "done"]
    /\ UNCHANGED storeVars

\* A peer's select! takes the shutdown_trigger.recv() branch
PeerShutdownObserved(p) ==
    /\ peers[p].pc = "active"
    /\ peers[p].seen
    /\ peers' = [peers EXCEPT ![p].pc = "done"]
    /\ UNCHANGED storeVars

\* The consumer of a peer's reply stream takes the next item
PeerConsumerRecv(p) ==
    /\ peers[p].rx = "open"
    /\ peers[p].buffered > 0
    /\ peers' = [peers EXCEPT ![p].buffered = @ - 1]
    /\ UNCHANGED storeVars

\* The consumer of a peer's reply stream drops it
PeerConsumerDrop(p) ==
    /\ peers[p].rx = "open"
    /\ peers' = [peers EXCEPT ![p].rx = "dropped", ![p].buffered = 0]
    /\ UNCHANGED storeVars

(***************************************************************************)
(* Collector::register_datapoints (collector.rs 184-271)                   *)
(***************************************************************************)
NoMessage == [text |-> "none", name |-> "none"]

RegisterInit ==
    /\ regPc = "idle"
    /\ regPerm = FALSE
    /\ regList = <<>>
    /\ regIdx = 0
    /\ regResults = <<>>
    /\ regStatus = "none"
    /\ regMessage = NoMessage

\* Variant of Insert: an entry().or_insert(id), which keeps the id already there
Insert_KeepsFirst(map, name, id) ==
    [n \in DOMAIN map \cup {name} |-> IF n \in DOMAIN map THEN map[n] ELSE id]

\* results.insert(name, id)
Insert(map, name, id) ==
    [n \in DOMAIN map \cup {name} |-> IF n = name THEN id ELSE map[n]]

\* Variant of RegistrationStatus: an expired permission is reported like a denied one
RegistrationStatus_ExpiredAsDenied(err) ==
    CASE err = "PermissionDenied" -> "PermissionDenied"
      [] err = "PermissionExpired" -> "PermissionDenied"
      [] err = "ValidationError" -> "InvalidArgument"

\* The Status a RegistrationError is turned into
RegistrationStatus(err) ==
    CASE err = "PermissionDenied" -> "PermissionDenied"
      [] err = "PermissionExpired" -> "Unauthenticated"
      [] err = "ValidationError" -> "InvalidArgument"

\* match error { Some(error) => Err(error), None => Ok(reply) } once the loop is over
RegisterReturn(idx, list) ==
    IF idx = Len(list)
    THEN /\ regPc' = "done"
         /\ regStatus' = "Ok"
    ELSE /\ regPc' = "running"
         /\ UNCHANGED regStatus

\* Variant of RegisterAbort: the error is recorded but the loop is not left
RegisterAbort_NoBreak(code, text, name) ==
    /\ regStatus' = code
    /\ regMessage' = [text |-> text, name |-> name]
    /\ regIdx' = regIdx + 1
    /\ regPc' = IF regIdx + 1 = Len(regList) THEN "done" ELSE "running"
    /\ UNCHANGED regResults

\* break with error = Some(Status::new(code, format!("{text} {name}")))
RegisterAbort(code, text, name) ==
    /\ regPc' = "done"
    /\ regStatus' = code
    /\ regMessage' = [text |-> text, name |-> name]
    /\ UNCHANGED <<regIdx, regResults>>

\* The call up to its first await: authorize and enter the for loop
register_datapoints(maxLen) ==
    /\ regPc = "idle"
    /\ \E hasPerm \in BOOLEAN, list \in DescriptorLists(maxLen) :
        /\ regList' = list
        /\ regPerm' = hasPerm
        /\ IF ~hasPerm
           THEN /\ regPc' = "done"
                /\ regStatus' = "Unauthenticated"
                /\ regMessage' = [text |-> "Unauthenticated", name |-> "none"]
           ELSE /\ RegisterReturn(0, list)
                /\ UNCHANGED regMessage
    /\ UNCHANGED <<regIdx, regResults>>
    /\ UNCHANGED storeVars

\* One turn of the for loop over request.list
RegisterStep ==
    /\ regPc = "running"
    /\ regIdx < Len(regList)
    /\ LET metadata == regList[regIdx + 1] IN
        IF ~DataTypeDecodes(metadata.data_type)
        THEN /\ RegisterAbort("InvalidArgument", "Unsupported data type provided for", metadata.name)
             /\ UNCHANGED storeVars
        ELSE IF ~ChangeTypeDecodes(metadata.change_type)
        THEN /\ RegisterAbort("InvalidArgument", "Unsupported change type provided for", metadata.name)
             /\ UNCHANGED storeVars
        ELSE \E r \in AddEntryOutcomes :
            /\ addLog' = Append(addLog, [name |-> metadata.name, ok |-> r.ok, id |-> r.id,
                                        err |-> r.err])
            /\ UNCHANGED storeUpdates
            /\ IF r.ok
               THEN /\ regResults' = Insert(regResults, metadata.name, r.id)
                    /\ regIdx' = regIdx + 1
                    /\ RegisterReturn(regIdx + 1, regList)
                    /\ UNCHANGED regMessage
               ELSE RegisterAbort(RegistrationStatus(r.err), "Failed to register", metadata.name)
    /\ UNCHANGED <<regList, regPerm>>

(***************************************************************************)
(* Specifications                                                          *)
(***************************************************************************)
Init ==
    /\ ClientInit
    /\ StoreInit
    /\ UpdateInit
    /\ StreamInit
    /\ PeerInit
    /\ RegisterInit

collectorVars == <<storeVars, updateVars, streamVars, peerVars, registerVars>>

\* The client alone
NextClient ==
    \/ try_connect /\ UNCHANGED <<collectorVars, callVars>>
    \/ try_connect_to /\ UNCHANGED <<collectorVars, callVars>>
    \/ get_channel /\ UNCHANGED <<collectorVars, callVars>>
    \/ rpc_call /\ UNCHANGED <<collectorVars, inflight>>
    \/ set_access_token /\ UNCHANGED <<collectorVars, callVars>>
    \/ subscribe_to_connection_state /\ UNCHANGED <<collectorVars, callVars>>
    \/ ObserverRecv /\ UNCHANGED <<collectorVars, callVars>>
    \/ ObserverDrop /\ UNCHANGED <<collectorVars, callVars>>
    \/ TransportFails /\ UNCHANGED <<collectorVars, callVars>>

SpecClient == Init /\ [][NextClient]_vars

\* The client with its connect attempts split at builder.connect().await. A method
\* of Client needs &self or &mut self, which nothing can get while a suspended
\* call holds &mut self; the observers' streams and the transport are not part of
\* the Client.
NextClientAwait ==
    \/ ConnectSuspend /\ UNCHANGED <<collectorVars, lastRpc>>
    \/ ConnectComplete /\ UNCHANGED <<collectorVars, lastRpc>>
    \/ inflight = <<>> /\ channel.present /\ get_channel /\ UNCHANGED <<collectorVars, callVars>>
    \/ inflight = <<>> /\ set_access_token /\ UNCHANGED <<collectorVars, callVars>>
    \/ inflight = <<>> /\ subscribe_to_connection_state /\ UNCHANGED <<collectorVars, callVars>>
    \/ ObserverRecv /\ UNCHANGED <<collectorVars, callVars>>
    \/ ObserverDrop /\ UNCHANGED <<collectorVars, callVars>>
    \/ TransportFails /\ UNCHANGED <<collectorVars, callVars>>

SpecClientAwait == Init /\ [][NextClientAwait]_vars

streamOthers == <<clientVars, updateVars, registerVars, peerVars>>
\* What the shutdown broadcast leaves alone: it reaches every session
broadcastOthers == <<clientVars, updateVars, registerVars>>

\* One streaming ingestion session, its consumer and the shutdown broadcast
NextStream ==
    \/ stream_datapoints /\ UNCHANGED streamOthers
    \/ StreamMessage(MaxBatches, ItemIds, {"OutOfBounds", "InvalidType"}) /\ UNCHANGED streamOthers
    \/ StreamEnd /\ UNCHANGED streamOthers
    \/ StreamError /\ UNCHANGED streamOthers
    \/ ShutdownObserved /\ UNCHANGED streamOthers
    \/ Shutdown /\ UNCHANGED broadcastOthers
    \/ ConsumerRecv /\ UNCHANGED streamOthers
    \/ ConsumerEnd /\ UNCHANGED streamOthers
    \/ ConsumerDrop /\ UNCHANGED streamOthers

SpecStream == Init /\ [][NextStream]_vars

\* A session with enough failing batches to fill the reply channel
NextBackpressure ==
    \/ stream_datapoints /\ UNCHANGED streamOthers
    \/ StreamMessage(ReplyChannelCapacity + BackpressureSlack, {1}, {"OutOfBounds"})
            /\ UNCHANGED streamOthers
    \/ SendResume /\ UNCHANGED streamOthers
    \/ StreamEnd /\ UNCHANGED streamOthers
    \/ StreamError /\ UNCHANGED streamOthers
    \/ ShutdownObserved /\ UNCHANGED streamOthers
    \/ Shutdown /\ UNCHANGED broadcastOthers
    \/ ConsumerRecv /\ UNCHANGED streamOthers
    \/ ConsumerEnd /\ UNCHANGED streamOthers
    \/ ConsumerDrop /\ UNCHANGED streamOthers

SpecBackpressure == Init /\ [][NextBackpressure]_vars

\* The same, with the runtime resuming a send that can complete and a consumer
\* that keeps polling the reply stream while it holds it
SpecBackpressureFair ==
    /\ SpecBackpressure
    /\ WF_vars(SendResume /\ UNCHANGED streamOthers)
    /\ WF_vars(ConsumerRecv /\ UNCHANGED streamOthers)

\* The same, with what the runtime guarantees to the task alone: a send that can
\* complete is resumed and a select! that can take its shutdown branch again and
\* again does take it. Nothing is assumed of the consumer of the reply stream.
SpecBackpressureTask ==
    /\ SpecBackpressure
    /\ WF_vars(SendResume /\ UNCHANGED streamOthers)
    /\ SF_vars(ShutdownObserved /\ UNCHANGED streamOthers)

\* The same, with a consumer that keeps polling the reply stream while it holds it
SpecBackpressureDrained ==
    /\ SpecBackpressureTask
    /\ WF_vars(ConsumerRecv /\ UNCHANGED streamOthers)

\* A session whose i-th inbound batch carries the datapoint id i, so that every
\* failure report names the batch it answers
NextOrder ==
    \/ stream_datapoints /\ UNCHANGED streamOthers
    \/ StreamMessage(ReplyChannelCapacity + BackpressureSlack, {nRead + 1}, {"OutOfBounds"})
            /\ UNCHANGED streamOthers
    \/ SendResume /\ UNCHANGED streamOthers
    \/ StreamEnd /\ UNCHANGED streamOthers
    \/ ConsumerRecv /\ UNCHANGED streamOthers
    \/ ConsumerDrop /\ UNCHANGED streamOthers

SpecOrder == Init /\ [][NextOrder]_vars

\* One RegisterDatapoints request
NextRegister ==
    \/ register_datapoints(MaxList) /\ UNCHANGED <<clientVars, updateVars, streamVars, peerVars>>
    \/ RegisterStep /\ UNCHANGED <<clientVars, updateVars, streamVars, peerVars>>

SpecRegister == Init /\ [][NextRegister]_vars

\* UpdateDatapoints calls
NextUpdate ==
    update_datapoints(ItemIds, FailureKinds) /\ UNCHANGED <<clientVars, streamVars, peerVars, registerVars>>

SpecUpdate == Init /\ [][NextUpdate]_vars

\* The three RPCs of the Collector service side by side, on short inputs
NextCollector ==
    \/ update_datapoints({1}, {"OutOfBounds"}) /\ UNCHANGED <<clientVars, streamVars, peerVars, registerVars>>
    \/ stream_datapoints /\ UNCHANGED streamOthers
    \/ StreamMessage(1, {1}, {"OutOfBounds"}) /\ UNCHANGED streamOthers
    \/ StreamEnd /\ UNCHANGED streamOthers
    \/ StreamError /\ UNCHANGED streamOthers
    \/ ConsumerRecv /\ UNCHANGED streamOthers
    \/ ConsumerEnd /\ UNCHANGED streamOthers
    \/ ConsumerDrop /\ UNCHANGED streamOthers
    \/ register_datapoints(1) /\ UNCHANGED <<clientVars, updateVars, streamVars, peerVars>>
    \/ RegisterStep /\ UNCHANGED <<clientVars, updateVars, streamVars, peerVars>>

SpecCollector == Init /\ [][NextCollector]_vars

peerOthers == <<clientVars, updateVars, registerVars, streamVars>>

\* Several providers' sessions and the shutdown broadcast
NextShutdown ==
    \/ stream_datapoints /\ UNCHANGED streamOthers
    \/ StreamMessage(1, {1}, {"OutOfBounds"}) /\ UNCHANGED streamOthers
    \/ StreamEnd /\ UNCHANGED streamOthers
    \/ ShutdownObserved /\ UNCHANGED streamOthers
    \/ ConsumerRecv /\ UNCHANGED streamOthers
    \/ Shutdown /\ UNCHANGED broadcastOthers
    \/ \E p \in Peers : PeerStreamDatapoints(p) /\ UNCHANGED peerOthers
    \/ \E p \in Peers : PeerStreamMessage(p, ReplyChannelCapacity + BackpressureSlack)
                            /\ UNCHANGED peerOthers
    \/ \E p \in Peers : PeerSendResume(p) /\ UNCHANGED peerOthers
    \/ \E p \in Peers : PeerStreamEnd(p) /\ UNCHANGED peerOthers
    \/ \E p \in Peers : PeerShutdownObserved(p) /\ UNCHANGED peerOthers
    \/ \E p \in Peers : PeerConsumerRecv(p) /\ UNCHANGED peerOthers
    \/ \E p \in Peers : PeerConsumerDrop(p) /\ UNCHANGED peerOthers

SpecShutdown == Init /\ [][NextShutdown]_vars

\* The same, with what the runtime guarantees to the tasks: a select! that can take
\* its shutdown branch again and again does take it, and a send that can complete
\* is resumed. Nothing is assumed of the consumers of the reply streams.
SpecShutdownFair ==
    /\ SpecShutdown
    /\ SF_vars(ShutdownObserved /\ UNCHANGED streamOthers)
    /\ \A p \in Peers : SF_vars(PeerShutdownObserved(p) /\ UNCHANGED peerOthers)
    /\ \A p \in Peers : WF_vars(PeerSendResume(p) /\ UNCHANGED peerOthers)

\* The same again, with consumers that keep reading the reply streams they hold
SpecShutdownDrained ==
    /\ SpecShutdownFair
    /\ WF_vars(ConsumerRecv /\ UNCHANGED streamOthers)
    /\ \A p \in Peers : WF_vars(PeerConsumerRecv(p) /\ UNCHANGED peerOthers)

(***************************************************************************)
(* Properties                                                              *)
(***************************************************************************)

\* C1: whenever try_connect's transport build succeeds, the call returns Ok and
\* is_connected() is true afterwards, whatever the state of the hub (never
\* created, live observers, every observer dropped).
C1_ConnectAfterBuildIsOk ==
    (cliOp.op = "try_connect" /\ cliOp.built) => (cliOp.res = "Ok" /\ is_connected)

\* C2 as stated: once the shutdown signal has been delivered to an Active session,
\* no inbound batch is applied to the Store and nothing more is pushed on the
\* reply channel.
C2_NoBatchAfterSignalDelivered ==
    [][shutdownSeen => (storeUpdates' = storeUpdates /\ nEnqueued' = nEnqueued)]_vars

AllRepliesOk == \A i \in 1..Len(replyChan) : replyChan[i].kind = "Ok"

\* C2 amended: once the loop has taken the shutdown branch of its select, no inbound
\* batch is applied to the Store, nothing more is pushed, the producing end of the
\* reply channel is closed, and no item of the reply stream is an error item.
C2_HaltsOnceShutdownTaken ==
    /\ [][sessExit = "shutdown" =>
            (/\ storeUpdates' = storeUpdates
             /\ nRead' = nRead
             /\ nEnqueued' = nEnqueued
             /\ Len(replyChan') <= Len(replyChan))]_vars
    /\ [](sessExit = "shutdown" => (sessPc = "done" /\ txClosed /\ pending = NoPush))
    /\ []AllRepliesOk

\* C2 witness: a session that applied a batch, queued a failure report and then
\* left its loop through the shutdown branch.
C2_Witness ==
    /\ sessExit = "shutdown"
    /\ sessPc = "done"
    /\ nRead >= 1
    /\ replyChan # <<>>

Suspended == IF sessPc = "sending" THEN 1 ELSE 0

\* C3 as stated: a failure report is never dropped, so every report the session
\* produced is buffered, in a suspended push, or already delivered.
C3_NeverDropped == nDropped = 0

\* C3 amended: while the consumer holds the reply stream no failure report is
\* dropped: a push onto the full channel suspends the task, which reads and applies
\* no further batch until the report is accepted, and every report is delivered to
\* a consumer that keeps reading. A report is discarded only once the consumer has
\* dropped the reply stream.
C3_SuspendsRatherThanDrops ==
    /\ [](nDropped > 0 => rxState = "dropped")
    /\ [](rxState = "open" => nFailed = nDelivered + Len(replyChan) + Suspended)
    /\ [](sessPc = "sending" => (pending = lastPush /\ pending.kind = "Ok"))
    /\ [][(sessPc # "sending" /\ sessPc' = "sending") =>
            (rxState = "open" /\ Len(replyChan) = ReplyChannelCapacity)]_vars
    /\ [][sessPc = "sending" => (nRead' = nRead /\ storeUpdates' = storeUpdates)]_vars
    /\ [][(sessPc = "sending" /\ sessPc' # "sending" /\ rxState = "open") =>
            replyChan' = Append(replyChan, pending)]_vars
    /\ []<>(rxState # "open" \/ nDelivered = nFailed)

\* C3 witness: the task is suspended pushing a report onto the full reply channel
\* of a consumer that still holds the stream.
C3_Witness ==
    /\ sessPc = "sending"
    /\ Len(replyChan) = ReplyChannelCapacity
    /\ rxState = "open"
    /\ nDelivered > 0

\* C4: a request without Permissions is rejected with Unauthenticated and makes no
\* Store call, for each of UpdateDatapoints, StreamDatapoints and
\* RegisterDatapoints; a StreamDatapoints session without Permissions never becomes
\* Active: no task runs, no batch is read, no reply stream is returned.
C4_UnauthenticatedBeforeStore ==
    /\ []((updReply.status # "none" /\ ~updReply.perm) =>
            (updReply.status = "Unauthenticated" /\ UpdateOk(updReply.errors)))
    /\ [][(updReply' # updReply /\ ~updReply'.perm) => UNCHANGED storeVars]_vars
    /\ []((sessCall.ret # "none" /\ ~sessCall.perm) =>
            /\ sessCall.ret = "Unauthenticated"
            /\ sessPc = "rejected"
            /\ nRead = 0
            /\ rxState = "none"
            /\ replyChan = <<>>)
    /\ [][(sessCall' # sessCall /\ ~sessCall'.perm) => UNCHANGED storeVars]_vars
    /\ []((regPc # "idle" /\ ~regPerm) =>
            /\ regPc = "done"
            /\ regStatus = "Unauthenticated"
            /\ regIdx = 0
            /\ addLog = <<>>)

\* C4 witness: all three RPCs were called without Permissions, next to nothing
\* but rejections.
C4_Witness ==
    /\ updReply.status = "Unauthenticated"
    /\ sessCall.ret = "Unauthenticated"
    /\ regStatus = "Unauthenticated"
    /\ Len(regList) > 0
    /\ storeUpdates = 0
    /\ addLog = <<>>

\* The reply the last batch calls for: none when the Store accepted every item,
\* else one Ok item whose errors map has exactly the failing ids with their codes
ExpectedPush ==
    IF UpdateOk(lastStore)
    THEN lastPush = NoPush
    ELSE /\ lastPush.kind = "Ok"
         /\ DOMAIN lastPush.errors = DOMAIN lastStore
         /\ DOMAIN lastPush.errors \subseteq lastBatch
         /\ \A id \in DOMAIN lastStore : lastPush.errors[id] = DatapointErrorCode(lastStore[id])

\* C5: for every inbound batch, no reply is emitted when the Store accepted all
\* items; otherwise exactly one reply is emitted, with exactly the ids the Store
\* reported as failing, each with its translated code.
C5_OneReplyPerFailingBatch ==
    /\ [](nRead > 0 => ExpectedPush)
    /\ [](nFailed = nEnqueued + nDropped + Suspended)
    /\ [][nRead' = nRead + 1 =>
            (IF UpdateOk(lastStore')
             THEN /\ replyChan' = replyChan
                  /\ pending' = pending
                  /\ nFailed' = nFailed
             ELSE /\ nFailed' = nFailed + 1
                  /\ \/ replyChan' = Append(replyChan, lastPush') /\ rxState = "open"
                     \/ pending' = lastPush' /\ replyChan' = replyChan /\ rxState = "open"
                     \/ replyChan' = replyChan /\ rxState = "dropped")]_vars
    /\ [][nRead' = nRead => Len(replyChan') <= Len(replyChan)]_vars

\* C5 witness: the batch {1, 2} for which the Store reported id 2 alone as out of
\* bounds, and the reply {2: OutOfBounds} at the end of the reply channel.
C5_Witness ==
    /\ nRead > 0
    /\ lastBatch = {1, 2}
    /\ DOMAIN lastStore = {2}
    /\ lastStore[2] = "OutOfBounds"
    /\ replyChan # <<>>
    /\ DOMAIN replyChan[Len(replyChan)].errors = {2}
    /\ replyChan[Len(replyChan)].errors[2] = DatapointErrorCode("OutOfBounds")

\* C6: a batch for which the Store reports failures does not end the session: the
\* loop stays in its select (or in the push) and only end-of-stream, a transport
\* error or the shutdown signal ends the task.
C6_FailuresDoNotAbort ==
    /\ [][(nRead' = nRead + 1 /\ ~UpdateOk(lastStore')) =>
            (/\ sessPc' \in {"active", "sending"}
             /\ sessExit' = "none"
             /\ ~txClosed')]_vars
    /\ [](sessPc = "done" <=> sessExit \in {"eos", "error", "shutdown"})
    /\ [](sessPc = "done" <=> txClosed)

\* C6 witness: two batches in a row failed in the Store, both were applied, and the
\* session is still in its loop.
C6_Witness ==
    /\ nRead = 2
    /\ nFailed = 2
    /\ storeUpdates = 2
    /\ sessPc = "active"

\* C7: after a clean end-of-stream or a transport read error the task has left its
\* loop: no further batch is applied, nothing more is pushed, the producing end of
\* the reply channel is closed, and the reply stream completes once the queued
\* items have been delivered.
C7_EndOfStreamTerminates ==
    /\ [][(sessExit \in {"eos", "error"}) =>
            (/\ storeUpdates' = storeUpdates
             /\ nRead' = nRead
             /\ nEnqueued' = nEnqueued
             /\ Len(replyChan') <= Len(replyChan))]_vars
    /\ [][(sessExit = "none" /\ sessExit' \in {"eos", "error"}) =>
            (replyChan' = replyChan /\ txClosed')]_vars
    /\ [](sessExit \in {"eos", "error"} => (sessPc = "done" /\ txClosed))
    /\ [](rxState = "completed" =>
            (txClosed /\ replyChan = <<>> /\ nDelivered = nEnqueued))

\* C7 witness: the inbound stream ended with a report still queued, and the
\* consumer received it before it saw the reply stream complete.
C7_Witness ==
    /\ sessExit = "eos"
    /\ rxState = "completed"
    /\ nDelivered >= 1

Decodes(d) == DataTypeDecodes(d.data_type) /\ ChangeTypeDecodes(d.change_type)

Undecodable == {i \in 1..Len(regList) : ~Decodes(regList[i])}

Rejected == {j \in 1..Len(addLog) : ~addLog[j].ok}

\* C8: descriptors are passed to Store.add_entry strictly in input order and never
\* taken back; the request aborts at the first descriptor whose data_type or
\* change_type does not decode, with InvalidArgument naming it: every earlier
\* descriptor was added, and no later one is ever passed to the Store.
C8_AbortsAtFirstUndecodable ==
    /\ [](/\ Len(addLog) <= Len(regList)
          /\ \A j \in 1..Len(addLog) :
                addLog[j].name = regList[j].name /\ Decodes(regList[j]))
    /\ [][SubSeq(addLog', 1, Len(addLog)) = addLog]_vars
    /\ []((regPc = "done" /\ regPerm /\ Undecodable # {} /\ Rejected = {}) =>
            LET i == CHOOSE i \in Undecodable : \A k \in Undecodable : i <= k IN
                /\ regStatus = "InvalidArgument"
                /\ regMessage.name = regList[i].name
                /\ regMessage.text = IF ~DataTypeDecodes(regList[i].data_type)
                                     THEN "Unsupported data type provided for"
                                     ELSE "Unsupported change type provided for"
                /\ Len(addLog) = i - 1
                /\ regIdx = i - 1
                /\ \A j \in 1..(i - 1) : addLog[j].ok /\ regList[j].name \in DOMAIN regResults)

\* C8 witness: [A valid, B with an undecodable data type, A valid] ended with
\* InvalidArgument naming B after A alone was added.
C8_Witness ==
    /\ regPc = "done"
    /\ Len(regList) = 3
    /\ regList[1].name = "A" /\ Decodes(regList[1])
    /\ regList[2].name = "B" /\ ~DataTypeDecodes(regList[2].data_type)
    /\ Decodes(regList[3])
    /\ regStatus = "InvalidArgument"
    /\ regMessage = [text |-> "Unsupported data type provided for", name |-> "B"]
    /\ Len(addLog) = 1
    /\ addLog[1].name = "A" /\ addLog[1].ok

\* C9: a Store.add_entry failure aborts the request at that descriptor, with
\* PermissionDenied for PermissionDenied, Unauthenticated for PermissionExpired and
\* InvalidArgument for ValidationError, naming the descriptor; no descriptor after
\* it is attempted.
C9_StoreFailureAborts ==
    /\ \A j \in Rejected :
        /\ j = Len(addLog)
        /\ regPc = "done"
        /\ regIdx = j - 1
        /\ addLog[j].name = regList[j].name
        /\ regMessage = [text |-> "Failed to register", name |-> regList[j].name]
        /\ regStatus = CASE addLog[j].err = "PermissionDenied" -> "PermissionDenied"
                         [] addLog[j].err = "PermissionExpired" -> "Unauthenticated"
                         [] addLog[j].err = "ValidationError" -> "InvalidArgument"
    /\ regMessage.text = "Failed to register" => Rejected # {}

\* C9 witness: the Store answered PermissionExpired for the second of three
\* descriptors; the request ended Unauthenticated and the third was not attempted.
C9_Witness ==
    /\ regPc = "done"
    /\ Len(regList) = 3
    /\ Len(addLog) = 2
    /\ addLog[2].err = "PermissionExpired"
    /\ regStatus = "Unauthenticated"
    /\ Decodes(regList[3])

Positions(name) == {i \in 1..Len(regList) : regList[i].name = name}

\* C10 as stated: on success the reply has one entry per descriptor, mapping each
\* descriptor's name to the id the Store assigned to that descriptor.
C10_OneEntryPerDescriptor ==
    regStatus = "Ok" =>
        /\ Cardinality(DOMAIN regResults) = Len(regList)
        /\ \A i \in 1..Len(regList) : regResults[regList[i].name] = addLog[i].id

\* C10 amended: on success every descriptor was accepted by the Store and the reply
\* has one entry per distinct name of the list, mapping the name to the id the Store
\* returned for the last descriptor carrying it.
C10_OneEntryPerName ==
    regStatus = "Ok" =>
        /\ regPc = "done"
        /\ Len(addLog) = Len(regList)
        /\ \A i \in 1..Len(regList) : addLog[i].ok /\ addLog[i].name = regList[i].name
        /\ DOMAIN regResults = {regList[i].name : i \in 1..Len(regList)}
        /\ \A n \in DOMAIN regResults :
            LET last == CHOOSE i \in Positions(n) : \A k \in Positions(n) : k <= i
            IN regResults[n] = addLog[last].id

\* C10 witness: a successful request whose first and third descriptors carry the
\* same name and got different ids from the Store.
C10_Witness ==
    /\ regStatus = "Ok"
    /\ Len(regList) = 3
    /\ regList[1].name = regList[3].name
    /\ regList[2].name # regList[1].name
    /\ addLog[1].id # addLog[3].id
    /\ Cardinality(DOMAIN regResults) = 2

\* C11: get_channel with a channel present returns it without any connect attempt
\* and changes nothing; with no channel it makes exactly one connect attempt, for
\* the current endpoint, and returns Ok exactly when that attempt stored a channel
\* and a Connection error otherwise. A handle is returned, and a channel comes to be
\* stored, only through an attempt whose build succeeded: the stored handle is the
\* complete channel for the endpoint of that attempt.
C11_GetChannelConnectsOnlyWhenAbsent ==
    /\ [][cliOp'.op = "get_channel" =>
            IF channel.present
            THEN (/\ cliOp'.tries = 0
                  /\ cliOp'.res = "Ok"
                  /\ channel' = channel
                  /\ obs' = obs)
            ELSE (/\ cliOp'.tries = 1
                  /\ cliOp'.target = uri
                  /\ cliOp'.res \in {"Ok", "ConnectionError"}
                  /\ cliOp'.res = "Ok" <=> cliOp'.ev = "stored"
                  /\ cliOp'.res = "Ok" <=> channel'.present)]_vars
    /\ [][(cliOp'.op = "get_channel" /\ cliOp'.res = "Ok") => channel'.present]_vars
    /\ [][(channel' # channel /\ channel'.alive) =>
            (/\ cliOp'.tries = 1
             /\ cliOp'.built
             /\ cliOp'.res = "Ok"
             /\ channel' = [present |-> TRUE, target |-> cliOp'.target, alive |-> TRUE])]_vars

\* C11 witness: get_channel found no channel, connected once and returned the
\* channel it stored.
C11_Witness ==
    /\ cliOp.op = "get_channel"
    /\ cliOp.tries = 1
    /\ cliOp.res = "Ok"
    /\ channel.present

\* C12: when the transport build of try_connect fails, the call made one build
\* attempt, returns the Connection error of the failed connect, leaves channel,
\* token, endpoint and hub as they were, and Disconnected is the newest value of
\* every live observer; with no live observer the failed publish changes nothing.
C12_FailedConnectLeavesState ==
    [][(cliOp'.op = "try_connect" /\ ~cliOp'.built) =>
        (/\ cliOp'.tries = 1
         /\ cliOp'.res = "ConnectionError"
         /\ cliOp'.ev = "connect"
         /\ channel' = channel
         /\ token' = token
         /\ uri' = uri
         /\ hub' = hub
         /\ \A o \in Observers :
                IF obs[o].st = "live"
                THEN /\ obs'[o].st = "live"
                     /\ obs'[o].pend # <<>>
                     /\ obs'[o].pend[Len(obs'[o].pend)] = "Disconnected"
                ELSE obs'[o] = obs[o])]_vars

\* C12 witness: a try_connect whose build failed while a channel and a token were
\* stored and the hub had lost all its observers, so that the publish failed too.
C12_Witness ==
    /\ cliOp.op = "try_connect"
    /\ cliOp.tries = 1
    /\ ~cliOp.built
    /\ cliOp.res = "ConnectionError"
    /\ hub = "Some"
    /\ ReceiverCount = 0
    /\ channel.present
    /\ token.set

\* C13: is_connected() is false after construction, turns true only in a step of a
\* connect attempt that succeeded, and never turns false again, whatever follows
\* (failed reconnects, a transport that fails silently).
C13_ConnectedIsSticky ==
    /\ ~is_connected
    /\ [][(~is_connected /\ is_connected') =>
            (cliOp'.tries = 1 /\ cliOp'.built /\ cliOp'.res = "Ok")]_vars
    /\ [][is_connected => is_connected']_vars

\* C13 witness: the transport of the stored channel has failed silently and a
\* reconnect attempt has failed since; is_connected() still reports true.
C13_Witness ==
    /\ is_connected
    /\ ~channel.alive
    /\ cliOp.op = "try_connect"
    /\ ~cliOp.built
    /\ cliOp.res = "ConnectionError"

\* C14: every subscription adds an observer to the one hub and leaves the earlier
\* observers as they are; an observer's read consumes only its own buffer; and a
\* successful try_connect makes Connected the newest value of every live observer.
C14_BothObserversGetConnected ==
    /\ [][cliOp'.op = "subscribe" =>
            (/\ hub' = "Some"
             /\ \E o \in Observers :
                    /\ obs[o].st = "unused"
                    /\ obs'[o] = [st |-> "live", pend |-> <<>>, lagged |-> FALSE]
                    /\ \A p \in Observers \ {o} : obs'[p] = obs[p])]_vars
    /\ [][cliOp'.op = "observe" =>
            (\E o \in Observers :
                /\ \A p \in Observers \ {o} : obs'[p] = obs[p]
                /\ cliOp'.res = "Ok" =>
                    (/\ cliOp'.ev = Head(obs[o].pend)
                     /\ obs'[o].pend = Tail(obs[o].pend)))]_vars
    /\ [][(cliOp'.op = "try_connect" /\ cliOp'.res = "Ok") =>
            (\A o \in Observers :
                obs[o].st = "live" =>
                    (/\ obs'[o].st = "live"
                     /\ obs'[o].pend # <<>>
                     /\ obs'[o].pend[Len(obs'[o].pend)] = "Connected"))]_vars

\* C14 witness: two observers subscribed, nothing was published before, and a
\* successful try_connect has left Connected as the one value waiting in each
\* observer's buffer.
C14_Witness ==
    /\ cliOp.op = "try_connect"
    /\ cliOp.res = "Ok"
    /\ obs[1].st = "live"
    /\ obs[2].st = "live"
    /\ obs[1] = [st |-> "live", pend |-> <<"Connected">>, lagged |-> FALSE]
    /\ obs[2] = [st |-> "live", pend |-> <<"Connected">>, lagged |-> FALSE]

\* Requests the interceptor is applied to: a blank one, one carrying another
\* header, one already carrying an authorization header
Requests ==
    {BlankRequest,
     [h \in {"x-trace"} |-> <<49>>],
     [h \in {"authorization"} |-> <<88>>]}

\* C15: set_access_token given a text that is not legal header-value content
\* returns MalformedToken and leaves the stored token (or its absence) unchanged,
\* so that the interceptor gives every request the same result as before the call.
C15_MalformedTokenLeavesToken ==
    [][(cliOp'.op = "set_access_token" /\ ~IsLegalHeaderValue(cliOp'.arg)) =>
        (/\ cliOp'.res = "MalformedTokenError"
         /\ token' = token
         /\ \A req \in Requests :
                get_auth_interceptor(req)' = get_auth_interceptor(req))]_vars

\* C15 witness: a malformed text was rejected while a valid token was stored.
C15_Witness ==
    /\ cliOp.op = "set_access_token"
    /\ ~IsLegalHeaderValue(cliOp.arg)
    /\ cliOp.res = "MalformedTokenError"
    /\ token.set

\* C16: after set_access_token(T) with a valid T the interceptor gives every
\* request the authorization header "Bearer " + T and keeps its other headers; no
\* other step changes what the interceptor attaches (the latest valid token wins);
\* while no token was set the request comes back as it was; the interceptor never
\* fails.
C16_InterceptorAttachesBearer ==
    /\ [][(cliOp'.op = "set_access_token" /\ IsLegalHeaderValue(cliOp'.arg)) =>
            (/\ cliOp'.res = "Ok"
             /\ \A req \in Requests :
                    LET out == get_auth_interceptor(req)'
                    IN /\ out.ok
                       /\ DOMAIN out.req = DOMAIN req \cup {"authorization"}
                       /\ out.req["authorization"] = BearerPrefix \o cliOp'.arg
                       /\ \A h \in DOMAIN req \ {"authorization"} : out.req[h] = req[h])]_vars
    /\ [][~(cliOp'.op = "set_access_token" /\ cliOp'.res = "Ok") =>
            (\A req \in Requests :
                get_auth_interceptor(req)' = get_auth_interceptor(req))]_vars
    /\ [](~token.set => get_auth_interceptor(BlankRequest).req = BlankRequest)
    /\ [](\A req \in Requests : get_auth_interceptor(req).ok)

\* C16 witness: the token "B" was set and a blank request comes back with the
\* header "Bearer B".
C16_Witness ==
    /\ cliOp.op = "set_access_token"
    /\ cliOp.res = "Ok"
    /\ cliOp.arg = <<66>>
    /\ get_auth_interceptor(BlankRequest).req["authorization"] = <<66, 101, 97, 114, 101, 114, 32, 66>>

\* C20: try_connect_to(new_endpoint) makes one connect attempt for new_endpoint
\* with try_connect's outcomes (Ok with the channel for new_endpoint stored, or a
\* Connection error with the channel left as it was), get_uri() returns
\* new_endpoint afterwards in both cases, and no other step changes the endpoint.
C20_OnlyConnectToChangesUri ==
    /\ [][cliOp'.op = "try_connect_to" =>
            (/\ get_uri' = cliOp'.target
             /\ cliOp'.tries = 1
             /\ cliOp'.res \in {"Ok", "ConnectionError"}
             /\ cliOp'.res = "Ok" =>
                    channel' = [present |-> TRUE, target |-> get_uri', alive |-> TRUE]
             /\ cliOp'.res # "Ok" => channel' = channel
             /\ token' = token
             /\ hub' = hub)]_vars
    /\ [][get_uri' # get_uri => cliOp'.op = "try_connect_to"]_vars

\* C20 witness: a try_connect_to for an endpoint other than the constructor's
\* failed to build; get_uri() returns the new endpoint and the channel stored
\* earlier is still the one for the old endpoint.
C20_Witness ==
    /\ cliOp.op = "try_connect_to"
    /\ ~cliOp.built
    /\ cliOp.target = "ep2"
    /\ get_uri = "ep2"
    /\ channel.present
    /\ channel.target = "ep1"

\* C17: an UpdateDatapoints call that carried Permissions returns a successful
\* response whose error map has exactly the ids the Store reported as failing,
\* each with the wire code of its failure, and is empty when update_entries
\* succeeded; a failing item never makes the call itself fail.
C17_ErrorsReportedInline ==
    updReply.perm =>
        /\ updReply.status = "Ok"
        /\ DOMAIN updReply.store \subseteq updReply.batch
        /\ DOMAIN updReply.errors = DOMAIN updReply.store
        /\ \A id \in DOMAIN updReply.store :
                updReply.errors[id] = DatapointErrorCode(updReply.store[id])
        /\ UpdateOk(updReply.store) => updReply.errors = <<>>

\* C17 witness: both items of a two-item request failed, one out of bounds and one
\* of the wrong type; the call succeeded with both codes in the error map.
C17_Witness ==
    /\ updReply.perm
    /\ updReply.status = "Ok"
    /\ updReply.batch = {1, 2}
    /\ updReply.store = (1 :> "OutOfBounds" @@ 2 :> "InvalidType")
    /\ updReply.errors = (1 :> DatapointErrorCode("OutOfBounds") @@ 2 :> DatapointErrorCode("InvalidType"))

\* C18: after the shutdown broadcast every session that was running at that
\* moment (reading, or suspended in a push) eventually ends its task; none is
\* left running.
C18_AllSessionsExitOnShutdown ==
    /\ shutdownSeen ~> (sessPc = "done")
    /\ \A p \in Peers : peers[p].seen ~> (peers[p].pc = "done")

\* C19: the step in which an authorized StreamDatapoints call returns hands out the
\* open reply stream while the task has read no batch, called the Store for none
\* and not ended. The result of the call never changes afterwards, and all that
\* reaches the consumer comes through the reply channel: items are taken from its
\* head, at most ReplyChannelCapacity are buffered, and the stream completes only
\* when the channel is empty and its producing end closed.
C19_ReturnsBeforeIngestion ==
    /\ [][(sessCall.ret = "none" /\ sessCall'.ret = "OkStream") =>
            (/\ sessCall'.perm
             /\ rxState' = "open"
             /\ sessPc' = "active"
             /\ nRead' = 0
             /\ storeUpdates' = storeUpdates
             /\ replyChan' = <<>>
             /\ ~txClosed'
             /\ sessExit' = "none")]_vars
    /\ [][sessCall.ret # "none" => sessCall' = sessCall]_vars
    /\ [][nDelivered' # nDelivered =>
            (/\ nDelivered' = nDelivered + 1
             /\ replyChan # <<>>
             /\ replyChan' = Tail(replyChan)
             /\ UNCHANGED <<sessPc, nRead, storeUpdates, pending>>)]_vars
    /\ [][(rxState = "open" /\ rxState' = "completed") =>
            (replyChan = <<>> /\ txClosed)]_vars
    /\ [](Len(replyChan) <= ReplyChannelCapacity)

\* C19 witness: the call has returned the reply stream and the task it spawned has
\* not yet read a batch or called the Store.
C19_Witness ==
    /\ sessCall = [perm |-> TRUE, ret |-> "OkStream"]
    /\ sessPc = "active"
    /\ rxState = "open"
    /\ nRead = 0
    /\ storeUpdates = 0

\* C21: connect attempts on one Client never overlap: at most one is suspended at
\* a time, and while it is suspended no method of the Client runs (only observers
\* and the transport move, leaving the handle in place). The handle is replaced in
\* the one step that completes the attempt, from the old handle to the complete
\* channel for the attempt's endpoint.
C21_ConnectAttemptsDoNotOverlap ==
    /\ [](Len(inflight) <= 1)
    /\ [][inflight # <<>> =>
            \/ /\ inflight' = inflight
               /\ cliOp'.op \in {"observe", "drop", "transport"}
               /\ channel'.present = channel.present
               /\ channel'.target = channel.target
               /\ UNCHANGED <<uri, token, hub>>
            \/ /\ inflight' = <<>>
               /\ cliOp'.op = Head(inflight).op
               /\ cliOp'.target = Head(inflight).target
               /\ cliOp'.res \in {"Ok", "ConnectionError"}
               /\ channel' = channel
                    \/ channel' = [present |-> TRUE, target |-> Head(inflight).target,
                                   alive |-> TRUE]]_vars
    /\ [][(channel'.present # channel.present \/ channel'.target # channel.target) =>
            (/\ inflight # <<>>
             /\ inflight' = <<>>
             /\ channel' = [present |-> TRUE, target |-> Head(inflight).target,
                            alive |-> TRUE])]_vars
    /\ [][cliOp'.ev = "existing" => (inflight = <<>> /\ channel' = channel)]_vars

\* C21 witness: a try_connect_to for another endpoint is suspended in its build
\* while the handle for the old endpoint is still the stored one.
C21_Witness ==
    /\ Len(inflight) = 1
    /\ Head(inflight).op = "try_connect_to"
    /\ channel.present
    /\ channel.target # Head(inflight).target

\* C24: an RPC method of a client wrapper gets its channel from get_channel. With
\* a channel stored it makes no connect attempt and sends the request on that
\* channel; with none it makes one attempt, and then either the attempt failed,
\* nothing is sent and the method returns a Connection error, or it succeeded, the
\* client is connected and the request goes out on the channel just stored.
C24_RpcGoesThroughGetChannel ==
    /\ [][cliOp'.op = "rpc" =>
            IF channel.present
            THEN (/\ cliOp'.tries = 0
                  /\ channel' = channel
                  /\ lastRpc'.sent
                  /\ lastRpc'.target = channel.target
                  /\ lastRpc'.res \in {"Ok", "Status"})
            ELSE (/\ cliOp'.tries = 1
                  /\ IF cliOp'.res = "Ok"
                     THEN /\ is_connected'
                          /\ lastRpc'.sent
                          /\ lastRpc'.target = channel'.target
                          /\ lastRpc'.res \in {"Ok", "Status"}
                     ELSE /\ ~is_connected'
                          /\ ~lastRpc'.sent
                          /\ lastRpc'.res = "ConnectionError")]_vars
    /\ [][lastRpc' # lastRpc => cliOp'.op = "rpc"]_vars
    /\ [](lastRpc.sent => is_connected)

\* C24 witness: an RPC method called on a client without a channel made one
\* connect attempt, which failed; nothing was sent and the client is not connected.
C24_Witness ==
    /\ cliOp.op = "rpc"
    /\ cliOp.tries = 1
    /\ ~cliOp.built
    /\ ~lastRpc.sent
    /\ lastRpc.res = "ConnectionError"
    /\ ~is_connected

\* C23: a new observer starts with an empty buffer, whatever was published before
\* it subscribed; an observer's buffer never holds more than HubCapacity events;
\* an event published to an observer whose buffer is full takes the place of the
\* oldest one, which that observer never gets, and the observer is told that it
\* lagged before it reads on; an observer that reads gets the oldest event still
\* in its buffer.
C23_NoReplayAndBoundedLag ==
    /\ [][cliOp'.op = "subscribe" =>
            (\E o \in Observers :
                /\ obs[o].st = "unused"
                /\ obs'[o] = [st |-> "live", pend |-> <<>>, lagged |-> FALSE])]_vars
    /\ [](\A o \in Observers : Len(obs[o].pend) <= HubCapacity)
    /\ [][\A o \in Observers :
            (/\ obs[o].st = "live"
             /\ Len(obs[o].pend) = HubCapacity
             /\ cliOp'.tries = 1
             /\ obs'[o] # obs[o]) =>
                (/\ obs'[o].lagged
                 /\ Len(obs'[o].pend) = HubCapacity
                 /\ obs'[o].pend[HubCapacity] = (IF cliOp'.built THEN "Connected"
                                                  ELSE "Disconnected")
                 /\ \A i \in 1..(HubCapacity - 1) : obs'[o].pend[i] = obs[o].pend[i + 1])]_vars
    /\ [][cliOp'.op = "observe" =>
            (\E o \in Observers :
                /\ obs[o].st = "live"
                /\ obs[o].pend # <<>>
                /\ \A p \in Observers \ {o} : obs'[p] = obs[p]
                /\ IF obs[o].lagged
                   THEN /\ cliOp'.res = "Lagged"
                        /\ obs'[o] = [obs[o] EXCEPT !.lagged = FALSE]
                   ELSE /\ cliOp'.res = "Ok"
                        /\ cliOp'.ev = Head(obs[o].pend)
                        /\ obs'[o].pend = Tail(obs[o].pend))]_vars

\* C23 witness: the first observer did not read while Disconnected and then
\* Connected were published, so it lagged and holds Connected only; the second
\* observer subscribed after both and holds nothing.
C23_Witness ==
    /\ cliOp.op = "subscribe"
    /\ obs[1] = [st |-> "live", pend |-> <<"Connected">>, lagged |-> TRUE]
    /\ obs[2] = [st |-> "live", pend |-> <<>>, lagged |-> FALSE]

\* C25 as stated: whenever a channel is stored, it was built for the endpoint
\* get_uri() reports.
C25_ChannelMatchesEndpoint ==
    channel.present => channel.target = get_uri

\* C25 amended: a channel is stored for the endpoint that is current when it is
\* stored, every connect attempt that returns Ok leaves the channel for the current
\* endpoint, and the stored channel comes to differ from the current endpoint only
\* through a try_connect_to that fails.
C25_ChannelMatchesEndpointOfItsAttempt ==
    /\ [][(channel' # channel /\ channel'.alive) => channel'.target = get_uri']_vars
    /\ [][(cliOp'.tries = 1 /\ cliOp'.res = "Ok") =>
            (channel'.present /\ channel'.target = get_uri')]_vars
    /\ [][((channel.present => channel.target = get_uri)
           /\ channel'.present /\ channel'.target # get_uri') =>
            (/\ cliOp'.op = "try_connect_to"
             /\ cliOp'.res = "ConnectionError"
             /\ channel' = channel
             /\ get_uri' # get_uri)]_vars

\* C25 witness: after a try_connect_to for another endpoint failed, an RPC method
\* sent its request on the stored channel, which is the one for the old endpoint.
C25_Witness ==
    /\ channel.present
    /\ channel.target # get_uri
    /\ cliOp.op = "rpc"
    /\ lastRpc.sent
    /\ lastRpc.target # get_uri

\* The most recently published event, as an observer that has not read it holds it
LastPublished(o) == obs[o].pend[Len(obs[o].pend)]

\* C26 as stated: the last event published is Connected exactly when
\* is_connected() is true, and Disconnected exactly when it is false.
C26_LastEventAgreesWithConnected ==
    \A o \in Observers :
        (obs[o].st = "live" /\ obs[o].pend # <<>>) =>
            /\ LastPublished(o) = "Connected" <=> is_connected
            /\ LastPublished(o) = "Disconnected" <=> ~is_connected

\* C26 amended: when the last event published is Connected, is_connected() is
\* true, and while is_connected() is false the last event published is
\* Disconnected; a Disconnected published by a failed reconnect says nothing of
\* is_connected(), which stays true.
C26_ConnectedEventImpliesConnected ==
    \A o \in Observers :
        (obs[o].st = "live" /\ obs[o].pend # <<>>) =>
            /\ LastPublished(o) \in {"Connected", "Disconnected"}
            /\ LastPublished(o) = "Connected" => is_connected
            /\ ~is_connected => LastPublished(o) = "Disconnected"

\* C26 witness: a connected client failed to reconnect: the last event published
\* is Disconnected and is_connected() is true.
C26_Witness ==
    /\ cliOp.op = "try_connect"
    /\ ~cliOp.built
    /\ is_connected
    /\ obs[1].st = "live"
    /\ obs[1].pend # <<>>
    /\ LastPublished(1) = "Disconnected"

\* One more event in an observer's buffer
PushedOnce(b, ev) ==
    IF Len(b.pend) < HubCapacity
    THEN [b EXCEPT !.pend = Append(@, ev)]
    ELSE [b EXCEPT !.pend = Append(Tail(@), ev), !.lagged = TRUE]

C22_AuthorizedOnceAtStart ==
    /\ [](sessAccess.grants = (IF sessPc \in {"active", "sending", "done"} THEN 1 ELSE 0))
    /\ [](sessAccess.grants = 1 => sessAccess.perms \in Permissions)
    /\ [][sessPc # "idle" =>
            (sessAccess'.perms = sessAccess.perms /\ sessAccess'.grants = sessAccess.grants)]_vars
    /\ [][nRead' # nRead =>
            (/\ storeUpdates' = storeUpdates + 1
             /\ sessAccess'.used = sessAccess.perms)]_vars

\* C22 witness: the second batch of a session started with the Permissions P2 has
\* been applied under P2, through the one handle made at the start.
C22_Witness ==
    /\ nRead = MaxBatches
    /\ nRead >= 2
    /\ sessAccess = [perms |-> "P2", grants |-> 1, used |-> "P2"]

\* C28 as stated: once the shutdown broadcast has reached a session, its task
\* eventually ends and drops its end of the reply channel, whatever the consumer
\* of the reply stream does.
C28_ShutdownEndsSuspendedTask ==
    (shutdownSent /\ shutdownSeen) ~> (sessPc = "done" /\ txClosed)

\* The batch a failure report answers: the one datapoint id in its errors
BatchOf(reply) == CHOOSE id \in DOMAIN reply.errors : TRUE

\* C29: the failure reports buffered in the reply channel are in the order in
\* which their batches were read, a report whose push is suspended answers a later
\* batch than every buffered one, a push appends and the consumer takes from the
\* front; the reply channel never holds more than ReplyChannelCapacity reports.
C29_RepliesInArrivalOrder ==
    /\ [](Len(replyChan) <= ReplyChannelCapacity)
    /\ [](\A i \in 1..Len(replyChan) : \A j \in 1..Len(replyChan) :
            i < j => BatchOf(replyChan[i]) < BatchOf(replyChan[j]))
    /\ [](sessPc = "sending" =>
            /\ BatchOf(pending) = nRead
            /\ \A i \in 1..Len(replyChan) : BatchOf(replyChan[i]) < BatchOf(pending))
    /\ [](\A i \in 1..Len(replyChan) : BatchOf(replyChan[i]) <= nRead)
    /\ [][nEnqueued' # nEnqueued =>
            (/\ Len(replyChan) < ReplyChannelCapacity
             /\ replyChan' = Append(replyChan, IF sessPc = "sending" THEN pending ELSE lastPush')
             /\ BatchOf(replyChan'[Len(replyChan')]) = nRead')]_vars
    /\ [][nDelivered' # nDelivered => replyChan' = Tail(replyChan)]_vars

\* C29 witness: ten reports are buffered, for batches in increasing order that are
\* not all consecutive, and the push of an eleventh is suspended.
C29_Witness ==
    /\ Len(replyChan) = ReplyChannelCapacity
    /\ sessPc = "sending"
    /\ BatchOf(replyChan[1]) + ReplyChannelCapacity < BatchOf(pending)

\* C30: while the push of a batch's failure report is suspended, the task reads no
\* batch, makes no Store call and does not leave its loop, shutdown signal or not;
\* it goes on only when that push has been accepted or has failed. Every batch read
\* is read by a task that is at the top of its loop and is applied to the Store in
\* the same step, so the Store has seen exactly the batches read so far, and the
\* suspended push is the report of the last batch read.
C30_OneBatchAtATime ==
    /\ [][sessPc = "sending" =>
            (/\ nRead' = nRead
             /\ storeUpdates' = storeUpdates
             /\ sessExit' = sessExit
             /\ txClosed' = txClosed
             /\ sessPc' \in {"sending", "active"})]_vars
    /\ [][(sessPc = "sending" /\ sessPc' # "sending") =>
            \/ (nEnqueued' = nEnqueued + 1 /\ replyChan' = Append(replyChan, pending))
            \/ (nDropped' = nDropped + 1 /\ rxState # "open")]_vars
    /\ [][nRead' # nRead =>
            (/\ sessPc = "active"
             /\ nRead' = nRead + 1
             /\ storeUpdates' = storeUpdates + 1)]_vars
    /\ [](storeUpdates = nRead)
    /\ [](sessPc = "sending" => (pending # NoPush /\ pending = lastPush))

\* C30 witness: the push for the eleventh failing batch is suspended on the full
\* reply channel and the shutdown signal is waiting, unexamined.
C30_Witness ==
    /\ sessPc = "sending"
    /\ shutdownSeen
    /\ sessExit = "none"
    /\ ~txClosed
    /\ Len(replyChan) = ReplyChannelCapacity
    /\ storeUpdates = nRead

\* C31: when the consumer drops the reply stream, the session's task is where it
\* was and has not ended. From then on every failing batch is still applied to the
\* Store, its report is counted as a failed push and put nowhere, and the task is
\* back at the top of its loop; a push that was suspended fails in the same way.
\* The task leaves its loop only through end-of-stream, a transport error or a
\* shutdown signal it holds, and while it is at the top of its loop it can read the
\* next batch.
C31_DroppedConsumerDoesNotEndSession ==
    /\ [][(rxState = "open" /\ rxState' = "dropped") =>
            (/\ sessPc' = sessPc
             /\ sessExit' = sessExit
             /\ txClosed' = txClosed
             /\ nRead' = nRead)]_vars
    /\ [][(rxState = "dropped" /\ nRead' # nRead) =>
            (/\ storeUpdates' = storeUpdates + 1
             /\ sessPc' = "active"
             /\ ~txClosed'
             /\ replyChan' = replyChan
             /\ nEnqueued' = nEnqueued
             /\ nDropped' = nDropped + (IF UpdateOk(lastStore') THEN 0 ELSE 1))]_vars
    /\ [][(rxState = "dropped" /\ sessPc = "sending" /\ sessPc' # "sending") =>
            (/\ sessPc' = "active"
             /\ nDropped' = nDropped + 1
             /\ replyChan' = replyChan)]_vars
    /\ [][(rxState = "dropped" /\ sessPc # "done" /\ sessPc' = "done") =>
            (/\ sessPc = "active"
             /\ sessExit' \in {"eos", "error", "shutdown"}
             /\ sessExit' = "shutdown" => shutdownSeen)]_vars
    /\ []((rxState = "dropped" /\ sessPc = "active"
           /\ nRead < ReplyChannelCapacity + BackpressureSlack) =>
            ENABLED (StreamMessage(ReplyChannelCapacity + BackpressureSlack, {1}, {"OutOfBounds"})
                        /\ UNCHANGED streamOthers))

\* C31 witness: after the consumer dropped the reply stream, two failing batches
\* were applied to the Store and their reports discarded; the task is at the top of
\* its loop.
C31_Witness ==
    /\ rxState = "dropped"
    /\ sessPc = "active"
    /\ ~txClosed
    /\ nDropped = 2
    /\ nEnqueued = 0
    /\ storeUpdates = nRead
    /\ ~UpdateOk(lastStore)

====
